---- MODULE Spec2Model ----
(***************************************************************************)
(* A model of gps.cpp, the C++11 translation of the simplified General     *)
(* Problem Solver of PAIP chapter 4.  The mutual recursion of achieve and  *)
(* apply_op is unfolded into an explicit call stack: one action per        *)
(* stretch of code between two calls or returns.                           *)
(***************************************************************************)
EXTENDS Naturals, Sequences, FiniteSets, TLC

VARIABLES
  current_state,       \* gps.cpp:105  the global std::list<Condition>
  current_operations,  \* gps.cpp:106  the global std::list<Op>
  goals,               \* the goals argument of GPS (gps.cpp:177)
  stack,               \* the C++ call stack, innermost call last
  ret,                 \* the value a call has just returned: "none", "true", "false"
  trace,               \* the names printed by "Executing operation: %s."
  output,              \* "none", then "SOLVED" or "FAILED" (gps.cpp:179, 181)
  last,                \* history: the call that returned last
  log,                 \* history: calls, executions and returns, in order
  init_state,          \* history: current_state when GPS was called
  arg1, arg2, result, applied  \* the arguments and result of a set function applied on its own

vars == <<current_state, current_operations, goals, stack, ret, trace, output,
          last, log, init_state, arg1, arg2, result, applied>>

harness == <<arg1, arg2, result, applied>>

engine == <<current_state, current_operations, goals, stack, ret, trace, output,
            last, log, init_state>>

(***************************************************************************)
(* Bounds of the model.                                                    *)
(***************************************************************************)
MaxOps == 2      \* operators in a generated library
MaxPre == 2      \* preconditions of a generated operator
MaxEff == 1      \* length of a generated add_list or del_list
MaxGoals == 2    \* goals handed to GPS
MaxSet == 2      \* length of a list handed to set_diff or set_union on its own

Cond == {"p", "q"}
CondOrder == <<"p", "q">>
DeepCond == {"p", "q", "r"}
DeepOrder == <<"p", "q", "r">>
Names == <<"A", "B", "C", "D">>

(***************************************************************************)
(* Pure functions.                                                         *)
(***************************************************************************)

\* std::find(begin, end, x) != end
Member(x, s) == \E k \in 1..Len(s) : s[k] = x

Op(_action, _preconds, _add_list, _del_list) ==
  [action |-> _action, preconds |-> _preconds,
   add_list |-> _add_list, del_list |-> _del_list]

appropriate_p_dels(goal, op) == Member(goal, op.del_list)

appropriate_p(goal, op) == Member(goal, op.add_list)

\* as find_all, with push_front for push_back
find_all_push_front(goal, ops) ==
  LET found == SelectSeq(ops, LAMBDA elt : appropriate_p(goal, elt))
  IN  [k \in 1..Len(found) |-> found[Len(found) + 1 - k]]

\* pred is appropriate_p at the one call, gps.cpp:170
find_all(goal, ops) == SelectSeq(ops, LAMBDA elt : appropriate_p(goal, elt))

\* as set_diff, with == for != in the test
set_diff_kept(set1, set2) == SelectSeq(set1, LAMBDA elt : Member(elt, set2))

set_diff(set1, set2) == SelectSeq(set1, LAMBDA elt : ~Member(elt, set2))

\* as set_union, with the second loop looking the elements of set2 up in set1
set_union_in_set1(set1, set2) == set1 \o SelectSeq(set2, LAMBDA elt : ~Member(elt, set1))

\* The second loop looks every element of set2 up in set2 itself.
set_union(set1, set2) == set1 \o SelectSeq(set2, LAMBDA elt : ~Member(elt, set2))

(***************************************************************************)
(* Stack frames.  i is the position of the std::all_of / std::any_of       *)
(* iteration; state0 and trace0 are history: the world state and the       *)
(* number of printed records when the call was made.                       *)
(***************************************************************************)
NoOp == Op("", <<>>, <<>>, <<>>)

Frame(fn, goal, op, left, candidates) ==
  [fn |-> fn, goal |-> goal, op |-> op, left |-> left, candidates |-> candidates,
   i |-> 1, state0 |-> current_state, trace0 |-> Len(trace)]

GPSFrame == Frame("GPS", "", NoOp, FALSE, <<>>)

\* gps.cpp:168-170: left and candidates are both computed on entry.
AchieveFrame(goal) ==
  Frame("achieve", goal, NoOp, Member(goal, current_state),
        find_all(goal, current_operations))

ApplyFrame(op) == Frame("apply_op", "", op, FALSE, <<>>)

NoCall == [fn |-> "none", goal |-> "", op |-> NoOp, left |-> FALSE, candidates |-> <<>>,
           i |-> 0, state0 |-> <<>>, trace0 |-> 0, val |-> FALSE, before |-> <<>>]

Top == stack[Len(stack)]
Pop == SubSeq(stack, 1, Len(stack) - 1)
Push(f) == Append(stack, f)
Step == [stack EXCEPT ![Len(stack)].i = @ + 1]
Bool(b) == IF b THEN "true" ELSE "false"

Ev(ev, fn, arg, val, depth) ==
  [ev |-> ev, fn |-> fn, arg |-> arg, val |-> val, depth |-> depth]

Returned(f, val, before) ==
  [fn |-> f.fn, goal |-> f.goal, op |-> f.op, left |-> f.left,
   candidates |-> f.candidates, i |-> f.i, state0 |-> f.state0,
   trace0 |-> f.trace0, val |-> val, before |-> before]

Arg(f) == IF f.fn = "achieve" THEN f.goal ELSE f.op.action

\* A call of f: the frame is pushed.  gps.cpp puts no bound on the depth of
\* the recursion, and neither does the model.
Call(f) ==
  /\ stack' = Push(f)
  /\ log' = Append(log, Ev("call", f.fn, Arg(f), FALSE, Len(stack) + 1))
  /\ ret' = "none"

\* The innermost call returns val.
Return(val) ==
  /\ stack' = Pop
  /\ ret' = Bool(val)
  /\ last' = Returned(Top, val, current_state)

(***************************************************************************)
(* GPS, gps.cpp:177-183.  The state and ops parameters are not used: the   *)
(* globals are.                                                            *)
(***************************************************************************)
Running(fn) == stack # <<>> /\ Top.fn = fn

\* std::all_of calls achieve on the next goal
GPSAchieve ==
  /\ Running("GPS") /\ ret = "none" /\ Top.i <= Len(goals)
  /\ Call(AchieveFrame(goals[Top.i]))
  /\ UNCHANGED <<current_state, current_operations, goals, trace, output, last, init_state, harness>>

\* achieve returned true: std::all_of goes on
GPSAchieved ==
  /\ Running("GPS") /\ ret = "true"
  /\ stack' = Step
  /\ ret' = "none"
  /\ UNCHANGED <<current_state, current_operations, goals, trace, output, last, log, init_state, harness>>

\* as GPSFailed, with the iteration going on after a failure
GPSFailedContinue ==
  /\ Running("GPS") /\ ret = "false"
  /\ stack' = Step
  /\ ret' = "none"
  /\ UNCHANGED <<current_state, current_operations, goals, trace, output, last, log, init_state, harness>>

\* achieve returned false: std::all_of stops, FAILED is printed
GPSFailed ==
  /\ Running("GPS") /\ ret = "false"
  /\ output' = "FAILED"
  /\ stack' = Pop
  /\ ret' = "none"
  /\ UNCHANGED <<current_state, current_operations, goals, trace, last, log, init_state, harness>>

\* std::all_of reached the end: SOLVED is printed
GPSSolved ==
  /\ Running("GPS") /\ ret = "none" /\ Top.i > Len(goals)
  /\ output' = "SOLVED"
  /\ stack' = Pop
  /\ ret' = "none"
  /\ UNCHANGED <<current_state, current_operations, goals, trace, last, log, init_state, harness>>

(***************************************************************************)
(* achieve, gps.cpp:167-175.                                               *)
(***************************************************************************)
\* std::any_of calls apply_op on the next candidate
AchieveApply ==
  /\ Running("achieve") /\ ret = "none" /\ Top.i <= Len(Top.candidates)
  /\ Call(ApplyFrame(Top.candidates[Top.i]))
  /\ UNCHANGED <<current_state, current_operations, goals, trace, output, last, init_state, harness>>

\* apply_op returned true: right = true, return left || right
AchieveApplied ==
  /\ Running("achieve") /\ ret = "true"
  /\ Return(Top.left \/ TRUE)
  /\ log' = Append(log, Ev("ret", "achieve", Top.goal, Top.left \/ TRUE, Len(stack)))
  /\ UNCHANGED <<current_state, current_operations, goals, trace, output, init_state, harness>>

\* apply_op returned false: std::any_of goes on
AchieveNext ==
  /\ Running("achieve") /\ ret = "false"
  /\ stack' = Step
  /\ ret' = "none"
  /\ UNCHANGED <<current_state, current_operations, goals, trace, output, last, log, init_state, harness>>

\* as AchieveReturn, with return left || !right
AchieveReturnNegated ==
  /\ Running("achieve") /\ ret = "none" /\ Top.i > Len(Top.candidates)
  /\ Return(Top.left \/ ~FALSE)
  /\ log' = Append(log, Ev("ret", "achieve", Top.goal, Top.left \/ ~FALSE, Len(stack)))
  /\ UNCHANGED <<current_state, current_operations, goals, trace, output, init_state, harness>>

\* std::any_of reached the end: right stays false, return left || right
AchieveReturn ==
  /\ Running("achieve") /\ ret = "none" /\ Top.i > Len(Top.candidates)
  /\ Return(Top.left \/ FALSE)
  /\ log' = Append(log, Ev("ret", "achieve", Top.goal, Top.left \/ FALSE, Len(stack)))
  /\ UNCHANGED <<current_state, current_operations, goals, trace, output, init_state, harness>>

(***************************************************************************)
(* apply_op, gps.cpp:151-160.                                              *)
(***************************************************************************)
\* std::all_of calls achieve on the next precondition
ApplyAchieve ==
  /\ Running("apply_op") /\ ret = "none" /\ Top.i <= Len(Top.op.preconds)
  /\ Call(AchieveFrame(Top.op.preconds[Top.i]))
  /\ UNCHANGED <<current_state, current_operations, goals, trace, output, last, init_state, harness>>

\* achieve returned true: std::all_of goes on
ApplyAchieved ==
  /\ Running("apply_op") /\ ret = "true"
  /\ stack' = Step
  /\ ret' = "none"
  /\ UNCHANGED <<current_state, current_operations, goals, trace, output, last, log, init_state, harness>>

\* as ApplyFail, with the iteration going on after a failed precondition
ApplyFailContinue ==
  /\ Running("apply_op") /\ ret = "false"
  /\ stack' = Step
  /\ ret' = "none"
  /\ UNCHANGED <<current_state, current_operations, goals, trace, output, last, log, init_state, harness>>

\* as ApplyFail, with the record printed before the preconditions are known to hold
ApplyFailPrints ==
  /\ Running("apply_op") /\ ret = "false"
  /\ trace' = Append(trace, Top.op.action)
  /\ Return(FALSE)
  /\ log' = Append(log, Ev("ret", "apply_op", Top.op.action, FALSE, Len(stack)))
  /\ UNCHANGED <<current_state, current_operations, goals, output, init_state, harness>>

\* as ApplyFail, with current_state restored to what it was at the call
ApplyFailRollback ==
  /\ Running("apply_op") /\ ret = "false"
  /\ current_state' = Top.state0
  /\ Return(FALSE)
  /\ log' = Append(log, Ev("ret", "apply_op", Top.op.action, FALSE, Len(stack)))
  /\ UNCHANGED <<current_operations, goals, trace, output, init_state, harness>>

\* as ApplyFail, with the deletes applied outside the if
ApplyFailApplies ==
  /\ Running("apply_op") /\ ret = "false"
  /\ current_state' = set_diff(current_state, Top.op.del_list)
  /\ Return(FALSE)
  /\ log' = Append(log, Ev("ret", "apply_op", Top.op.action, FALSE, Len(stack)))
  /\ UNCHANGED <<current_operations, goals, trace, output, init_state, harness>>

\* achieve returned false: std::all_of stops, apply_op returns false
ApplyFail ==
  /\ Running("apply_op") /\ ret = "false"
  /\ Return(FALSE)
  /\ log' = Append(log, Ev("ret", "apply_op", Top.op.action, FALSE, Len(stack)))
  /\ UNCHANGED <<current_state, current_operations, goals, trace, output, init_state, harness>>

\* std::all_of reached the end: print, delete, add, return true
ApplyExec ==
  /\ Running("apply_op") /\ ret = "none" /\ Top.i > Len(Top.op.preconds)
  /\ trace' = Append(trace, Top.op.action)
  /\ current_state' = set_union(set_diff(current_state, Top.op.del_list), Top.op.add_list)
  /\ Return(TRUE)
  /\ log' = log \o <<Ev("exec", "apply_op", Top.op.action, TRUE, Len(stack)),
                     Ev("ret", "apply_op", Top.op.action, TRUE, Len(stack))>>
  /\ UNCHANGED <<current_operations, goals, output, init_state, harness>>

Next ==
  \/ GPSAchieve \/ GPSAchieved \/ GPSFailed \/ GPSSolved
  \/ AchieveApply \/ AchieveApplied \/ AchieveNext \/ AchieveReturn
  \/ ApplyAchieve \/ ApplyAchieved \/ ApplyFail \/ ApplyExec

(***************************************************************************)
(* Initial states: GPS has just been called.                               *)
(***************************************************************************)
ListsOver(C, n) == UNION {[1..k -> C] : k \in 0..n}

\* the world states over the conditions of order, each written in that order
StatesOver(order) ==
  {SelectSeq(order, LAMBDA c : c \in S) : S \in SUBSET {order[k] : k \in 1..Len(order)}}

Shapes(C) == [preconds : ListsOver(C, MaxPre), add_list : ListsOver(C, MaxEff),
              del_list : ListsOver(C, MaxEff)]

\* the operators that can be a candidate for some goal
Adding(C) == {sh \in Shapes(C) : sh.add_list # <<>>}

Library(f) ==
  [k \in DOMAIN f |-> Op(Names[k], f[k].preconds, f[k].add_list, f[k].del_list)]

(***************************************************************************)
(* The same functions in one piece: what a call returns and the state it   *)
(* leaves, or that it does not return.  active holds the achieve calls     *)
(* that have not returned yet, each as its goal and the current_state it   *)
(* was entered in.  achieve reads its goal, current_state and the library  *)
(* and nothing else, so a call entered while the same call is active does  *)
(* what that one did, down to the same call again: it never returns.  A    *)
(* run that does not return nests achieve without end, over finitely many  *)
(* goals and states, and so enters such a call.                            *)
(***************************************************************************)
NoReturn == [returns |-> FALSE, val |-> FALSE, state |-> <<>>]
Value(b, st) == [returns |-> TRUE, val |-> b, state |-> st]

RECURSIVE achieve(_, _, _, _), any_of(_, _, _, _), apply_op(_, _, _, _), all_of(_, _, _, _)

\* gps.cpp:167-175
achieve(goal, st, ops, active) ==
  IF <<goal, st>> \in active THEN NoReturn
  ELSE LET left == Member(goal, st)
           right == any_of(find_all(goal, ops), st, ops, active \cup {<<goal, st>>})
       IN  IF right.returns THEN Value(left \/ right.val, right.state) ELSE NoReturn

\* gps.cpp:171-172: std::any_of over the candidates, with apply_op
any_of(candidates, st, ops, active) ==
  IF candidates = <<>> THEN Value(FALSE, st)
  ELSE LET r == apply_op(Head(candidates), st, ops, active)
       IN  IF ~r.returns \/ r.val THEN r
           ELSE any_of(Tail(candidates), r.state, ops, active)

\* gps.cpp:151-160
apply_op(op, st, ops, active) ==
  LET r == all_of(op.preconds, st, ops, active)
  IN  IF r.returns /\ r.val
      THEN Value(TRUE, set_union(set_diff(r.state, op.del_list), op.add_list))
      ELSE r

\* gps.cpp:152-153 and 178: std::all_of over a list of conditions, with achieve
all_of(conds, st, ops, active) ==
  IF conds = <<>> THEN Value(TRUE, st)
  ELSE LET r == achieve(Head(conds), st, ops, active)
       IN  IF ~r.returns \/ ~r.val THEN r
           ELSE all_of(Tail(conds), r.state, ops, active)

\* gps.cpp:177-183: GPS returns.  The inputs of the model are the ones on
\* which it does; every step of every run on them is followed, to whatever
\* depth.
Returns(state, gs, ops) == all_of(gs, state, ops, {}).returns

Start(state, gs, ops) ==
  /\ current_state = state
  /\ current_operations = ops
  /\ goals = gs
  /\ init_state = state
  /\ trace = <<>>
  /\ output = "none"
  /\ ret = "none"
  /\ last = NoCall
  /\ log = <<>>
  /\ stack = <<GPSFrame>>
  /\ arg1 = <<>> /\ arg2 = <<>> /\ result = <<>> /\ applied = "none"

\* Every library, world state and goal list over two conditions on which GPS
\* returns.
Init ==
  \E n \in 0..MaxOps : \E f \in [1..n -> Shapes(Cond)] :
    \E state \in StatesOver(CondOrder), gs \in ListsOver(Cond, MaxGoals) :
       Returns(state, gs, Library(f)) /\ Start(state, gs, Library(f))

Spec == Init /\ [][Next]_vars

\* Every world state and every library of operators that add something, over
\* three conditions, with one goal, on which GPS returns.  Conditions are compared for equality only
\* (gps.cpp:23), so the goal is "p" up to renaming.
InitDeep ==
  \E n \in 0..MaxOps : \E f \in [1..n -> Adding(DeepCond)] :
    \E state \in StatesOver(DeepOrder) :
       Returns(state, <<"p">>, Library(f)) /\ Start(state, <<"p">>, Library(f))

SpecDeep == InitDeep /\ [][Next]_vars

(***************************************************************************)
(* The sample problem of main, gps.cpp:199-234.                            *)
(***************************************************************************)
son_at_home == "son-at-home"
car_works == "car-works"
son_at_school == "son-at-school"
car_needs_battery == "car-needs-battery"
shop_knows_problem == "shop-knows-problem"
shop_has_money == "shop-has-money"
know_phone_number == "know-phone-number"
in_communication_with_shop == "in-communication-with-shop"
have_phone_book == "have-phone-book"
have_money == "have-money"

SampleState1 == <<son_at_home, car_needs_battery, have_money, have_phone_book>>
SampleState2 == <<son_at_home, car_works>>
SampleState3 == <<son_at_home>>
SampleState4 == <<son_at_home, car_needs_battery, have_money>>
SampleStates == {SampleState1, SampleState2, SampleState3, SampleState4}

SampleOps == <<
  Op("drive-son-to-school", <<son_at_home, car_works>>, <<son_at_school>>, <<son_at_home>>),
  Op("shop-installs-battery", <<car_needs_battery, shop_knows_problem, shop_has_money>>,
     <<car_works>>, <<>>),
  Op("tell-shop-problem", <<in_communication_with_shop>>, <<shop_knows_problem>>, <<>>),
  Op("telephone-shop", <<know_phone_number>>, <<in_communication_with_shop>>, <<>>),
  Op("look-up-number", <<have_phone_book>>, <<know_phone_number>>, <<>>),
  Op("give-shop-money", <<have_money>>, <<shop_has_money>>, <<have_money>>) >>

InitSample == \E state \in SampleStates : Start(state, <<son_at_school>>, SampleOps)

\* One thread of control: the program takes its next step whenever it has one.
SpecSample == InitSample /\ [][Next]_vars /\ WF_vars(Next)

(***************************************************************************)
(* set_diff and set_union applied on their own to bounded lists.           *)
(***************************************************************************)
InitSet ==
  /\ arg1 \in ListsOver(Cond, MaxSet) /\ arg2 \in ListsOver(Cond, MaxSet)
  /\ result = <<>> /\ applied = "none"
  /\ current_state = <<>> /\ current_operations = <<>> /\ goals = <<>>
  /\ init_state = <<>> /\ trace = <<>> /\ output = "none" /\ ret = "none"
  /\ last = NoCall /\ log = <<>> /\ stack = <<>>

ApplyUnion ==
  /\ applied = "none"
  /\ result' = set_union(arg1, arg2)
  /\ applied' = "set_union"
  /\ UNCHANGED <<arg1, arg2, engine>>

ApplyDiff ==
  /\ applied = "none"
  /\ result' = set_diff(arg1, arg2)
  /\ applied' = "set_diff"
  /\ UNCHANGED <<arg1, arg2, engine>>

NextSet == ApplyUnion \/ ApplyDiff

SpecSet == InitSet /\ [][NextSet]_vars

(***************************************************************************)
(* Reading the history.                                                    *)
(***************************************************************************)
JustReturned(fn) == ret # "none" /\ last.fn = fn

Elems(s) == {s[k] : k \in 1..Len(s)}

\* the position of the call event that the event at position e belongs to
CallOf(e) ==
  CHOOSE c \in 1..e :
    /\ log[c].ev = "call" /\ log[c].depth = log[e].depth
    /\ \A j \in (c + 1)..e : ~(log[j].ev = "call" /\ log[j].depth = log[e].depth)

\* the returns of the calls made directly by the call that the event at e belongs to
ChildReturns(e) ==
  SelectSeq(SubSeq(log, CallOf(e), e),
            LAMBDA x : x.ev = "ret" /\ x.depth = log[e].depth + 1)

OpNamed(name) ==
  CHOOSE o \in Elems(current_operations) : o.action = name

TopCalls == SelectSeq(log, LAMBDA x : x.ev = "call" /\ x.depth = 2)
TopReturns == SelectSeq(log, LAMBDA x : x.ev = "ret" /\ x.depth = 2)
Executed == SelectSeq(log, LAMBDA x : x.ev = "ret" /\ x.fn = "apply_op" /\ x.val)
Finished == stack = <<>>

(***************************************************************************)
(* C1.  From the world state of gps.cpp:217 and the goal son-at-school,    *)
(* GPS terminates, prints SOLVED, and has executed exactly look-up-number, *)
(* telephone-shop, tell-shop-problem, give-shop-money,                     *)
(* shop-installs-battery, drive-son-to-school, in that order.              *)
(***************************************************************************)
C1_Expected ==
  <<"look-up-number", "telephone-shop", "tell-shop-problem", "give-shop-money",
    "shop-installs-battery", "drive-son-to-school">>

\* C1: the run from SampleState1 ends SOLVED with the trace C1_Expected
C1_CanonicalRun ==
  (init_state = SampleState1) =>
     <>(Finished /\ output = "SOLVED" /\ trace = C1_Expected)

C1_Witness ==
  init_state = SampleState1 /\ Finished /\ output = "SOLVED" /\ Len(trace) = 6

(***************************************************************************)
(* C2.  Whenever achieve(goal) is called with goal in the world state, it  *)
(* returns true, leaves the world state as it was and prints no record.    *)
(***************************************************************************)
C2_SatisfiedGoalIsNoOp ==
  (JustReturned("achieve") /\ Member(last.goal, last.state0)) =>
     /\ last.val
     /\ current_state = last.state0
     /\ Len(trace) = last.trace0

(***************************************************************************)
(* C3.  After apply_op(action) returns true every condition of             *)
(* action.adds is in the world state, and no condition of action.deletes   *)
(* that is not in action.adds is.                                          *)
(***************************************************************************)
C3_EffectsApplied ==
  (JustReturned("apply_op") /\ last.val) =>
     /\ \A c \in Elems(last.op.add_list) : Member(c, current_state)
     /\ \A c \in Elems(last.op.del_list) \ Elems(last.op.add_list) :
           ~Member(c, current_state)
     /\ Elems(current_state) =
           (Elems(last.before) \ Elems(last.op.del_list)) \cup Elems(last.op.add_list)

(***************************************************************************)
(* C4.  When GPS is given the same goal twice in a row and the first       *)
(* achieve returned true, the second achieve returns true and prints no    *)
(* record.                                                                 *)
(***************************************************************************)
C4_SecondCall ==
  /\ JustReturned("achieve") /\ Running("GPS")
  /\ Top.i = 2 /\ goals[1] = goals[2]

\* C4: the second of two achieve calls in a row on one goal returns true and prints nothing
C4_AchieveIdempotent ==
  C4_SecondCall => (last.val /\ Len(trace) = last.trace0)

(***************************************************************************)
(* C5.  Whenever achieve(goal) is called with goal not in the world state  *)
(* and in no operator's add_list, it returns false, leaves the world state *)
(* as it was and prints no record.                                         *)
(***************************************************************************)
C5_Hopeless ==
  /\ JustReturned("achieve")
  /\ ~Member(last.goal, last.state0)
  /\ \A o \in Elems(current_operations) : ~Member(last.goal, o.add_list)

\* C5: a goal that is absent and that nothing adds fails, with state and trace untouched
C5_NoCandidateFails ==
  C5_Hopeless =>
     /\ ~last.val /\ ret = "false"
     /\ current_state = last.state0
     /\ Len(trace) = last.trace0

C5_Witness ==
  /\ C5_Hopeless /\ ret = "false"
  /\ Len(stack) >= 3 /\ current_state # <<>> /\ trace # <<>>
  /\ \E o \in Elems(current_operations) : Member(last.goal, o.del_list)

(***************************************************************************)
(* C6.  GPS calls achieve on the goals in the order given, goes on to the  *)
(* next goal only after a true return, prints SOLVED iff every goal's      *)
(* achieve returned true, and after the first false return prints FAILED   *)
(* with nothing more called, executed or printed.                          *)
(***************************************************************************)
C6_DriverAllInOrder ==
  /\ Len(TopCalls) <= Len(goals)
  /\ \A k \in 1..Len(TopCalls) : TopCalls[k].fn = "achieve" /\ TopCalls[k].arg = goals[k]
  /\ \A k \in 1..Len(TopReturns) : k < Len(TopCalls) => TopReturns[k].val
  /\ output = "SOLVED" <=>
        /\ Finished /\ Len(TopReturns) = Len(goals)
        /\ \A k \in 1..Len(TopReturns) : TopReturns[k].val
  /\ output = "FAILED" <=>
        /\ Finished /\ TopReturns # <<>>
        /\ ~TopReturns[Len(TopReturns)].val
  /\ output = "FAILED" => log[Len(log)] = TopReturns[Len(TopReturns)]
  /\ Finished => output # "none"

\* the first goal failed; the second, which holds already, was never tried
C6_Witness ==
  /\ output = "FAILED" /\ Len(goals) = 2 /\ Len(TopCalls) = 1
  /\ goals[1] # goals[2] /\ Member(goals[2], current_state)

(***************************************************************************)
(* C7.  The trace is the sequence of names of the operators whose apply_op *)
(* returned true, in the order of those returns; a record is printed only  *)
(* after achieve has returned true for every precondition of the operator, *)
(* in order; an apply_op that returns false prints no record of its own.   *)
(***************************************************************************)
C7_OutputContract ==
  /\ Len(trace) = Len(Executed)
  /\ \A k \in 1..Len(trace) : trace[k] = Executed[k].arg
  /\ \A e \in 1..Len(log) :
        /\ log[e].ev = "exec" =>
              LET rs == ChildReturns(e)
                  pre == OpNamed(log[e].arg).preconds
              IN  /\ Len(rs) = Len(pre)
                  /\ \A k \in 1..Len(rs) :
                        rs[k].fn = "achieve" /\ rs[k].arg = pre[k] /\ rs[k].val
        /\ (log[e].ev = "ret" /\ log[e].fn = "apply_op" /\ ~log[e].val) =>
              \A j \in CallOf(e)..e : ~(log[j].ev = "exec" /\ log[j].depth = log[e].depth)

\* an apply_op has returned false after an operator was executed, two calls
\* further down, for one of its preconditions
C7_Witness ==
  /\ Len(trace) >= 1
  /\ \E e \in 1..Len(log) : log[e].ev = "exec" /\ log[e].depth >= 5
  /\ JustReturned("apply_op") /\ ~last.val /\ Len(trace) > last.trace0

(***************************************************************************)
(* C8.  From the world state of gps.cpp:218, {son-at-home, car-works},     *)
(* GPS terminates, prints SOLVED, and the trace is the single record       *)
(* drive-son-to-school.                                                    *)
(***************************************************************************)
C8_CarWorksRun ==
  (init_state = SampleState2) =>
     <>(Finished /\ output = "SOLVED" /\ trace = <<"drive-son-to-school">>)

\* shop-installs-battery was a candidate for car-works and was tried
C8_Witness ==
  /\ init_state = SampleState2 /\ Finished /\ output = "SOLVED"
  /\ \E e \in 1..Len(log) :
        log[e] = Ev("ret", "apply_op", "shop-installs-battery", FALSE, 5)

(***************************************************************************)
(* C9.  From the world states of gps.cpp:219 and gps.cpp:220,              *)
(* {son-at-home} and {son-at-home, car-needs-battery, have-money}, GPS     *)
(* terminates and prints FAILED.                                           *)
(***************************************************************************)
C9_FailingRuns ==
  (init_state \in {SampleState3, SampleState4}) =>
     <>(Finished /\ output = "FAILED")

\* the run without the phone book fails on have-phone-book, under look-up-number
C9_Witness ==
  /\ init_state = SampleState4 /\ Finished /\ output = "FAILED"
  /\ \E e \in 1..Len(log) :
        /\ log[e] = Ev("ret", "achieve", have_phone_book, FALSE, 12)
        /\ log[e + 1] = Ev("ret", "apply_op", "look-up-number", FALSE, 11)

(***************************************************************************)
(* C10.  set_union(A, B) is A followed by the elements of B that are new   *)
(* to the result, so every element of A and of B is in it.                 *)
(***************************************************************************)
RECURSIVE AddNew(_, _)
AddNew(res, B) ==
  IF B = <<>> THEN res
  ELSE AddNew(IF Member(Head(B), res) THEN res ELSE Append(res, Head(B)), Tail(B))

\* C10: the result of set_union is that union, and holds every element of both lists
C10_UnionIsUnion ==
  applied = "set_union" =>
     /\ result = AddNew(arg1, arg2)
     /\ \A x \in Elems(arg1) \cup Elems(arg2) : Member(x, result)

(***************************************************************************)
(* C11.  set_diff(A, A) is the empty list, and set_union(A, {}) is A,      *)
(* element for element.                                                    *)
(***************************************************************************)
C11_SetIdentities ==
  /\ (applied = "set_diff" /\ arg2 = arg1) => result = <<>>
  /\ (applied = "set_union" /\ arg2 = <<>>) => result = arg1

\* set_diff has been applied to a list with a repeated condition and itself
C11_Witness ==
  applied = "set_diff" /\ arg2 = arg1 /\ Len(arg1) = MaxSet /\ arg1[1] = arg1[2]

StoppedAtFirstFailure(e) ==
  LET rs == ChildReturns(e)
      pre == OpNamed(log[e].arg).preconds
  IN  /\ Len(rs) >= 1 /\ Len(rs) <= Len(pre)
      /\ \A k \in 1..Len(rs) :
            /\ rs[k].fn = "achieve" /\ rs[k].arg = pre[k]
            /\ rs[k].val = (k < Len(rs))
      /\ \A j \in CallOf(e)..e : ~(log[j].ev = "exec" /\ log[j].depth = log[e].depth)

\* the step apply_op takes on a precondition whose achieve returned false
FailedPrecondStep ==
  (Running("apply_op") /\ ret = "false") =>
     /\ stack' = Pop /\ ret' = "false"
     /\ current_state' = current_state /\ trace' = trace
     /\ last'.fn = "apply_op" /\ ~last'.val /\ last'.i = Top.i

(***************************************************************************)
(* C13.  apply_op calls achieve on the preconditions in list order and     *)
(* stops at the first one whose achieve returns false: it then returns     *)
(* false at once, attempts no later precondition, applies neither the      *)
(* deletes nor the adds, and leaves current_state as the precondition      *)
(* attempts left it.                                                       *)
(***************************************************************************)
C13_AllWithoutRollback ==
  /\ [](\A e \in 1..Len(log) :
          (log[e].ev = "ret" /\ log[e].fn = "apply_op" /\ ~log[e].val) =>
             StoppedAtFirstFailure(e))
  /\ [][FailedPrecondStep]_vars

\* an apply_op has returned false on the first of two different preconditions,
\* the second of which a library operator adds
C13_Witness ==
  /\ JustReturned("apply_op") /\ ~last.val
  /\ last.i = 1 /\ Len(last.op.preconds) = 2
  /\ last.op.preconds[2] # last.op.preconds[1]
  /\ \E o \in Elems(current_operations) : Member(last.op.preconds[2], o.add_list)

(***************************************************************************)
(* C14.  When goal is not in current_state, achieve(goal) tries apply_op   *)
(* on the operators whose add_list contains goal, in library order,        *)
(* returns true at the first one whose apply_op returns true and attempts  *)
(* none after it; it returns false iff every candidate's apply_op returned *)
(* false or there is no candidate.                                         *)
(***************************************************************************)
C14_AnyInLibraryOrder ==
  (JustReturned("achieve") /\ ~last.left) =>
     LET e == Len(log)
         rs == ChildReturns(e)
         cands == SelectSeq(current_operations, LAMBDA o : Member(last.goal, o.add_list))
     IN  /\ log[e] = Ev("ret", "achieve", last.goal, last.val, Len(stack) + 1)
         /\ Len(rs) <= Len(cands)
         /\ \A k \in 1..Len(rs) :
               /\ rs[k].fn = "apply_op" /\ rs[k].arg = cands[k].action
               /\ k < Len(rs) => ~rs[k].val
         /\ last.val <=> (Len(rs) >= 1 /\ rs[Len(rs)].val)
         /\ ~last.val <=> (Len(rs) = Len(cands) /\ \A k \in 1..Len(rs) : ~rs[k].val)

\* achieve has returned true on the first of two candidates, for a goal that
\* was not in current_state
C14_Witness ==
  /\ JustReturned("achieve") /\ ~last.left /\ last.val
  /\ Len(last.candidates) = 2 /\ last.i = 1
  /\ Len(ChildReturns(Len(log))) = 1

(***************************************************************************)
(* C15.  A failed apply_op is not transactional: when apply_op returns     *)
(* false, current_state is what the precondition attempts left, not what   *)
(* it was at the call, and the two differ in runs where an operator was    *)
(* executed for an earlier precondition before a later one failed.         *)
(***************************************************************************)
C15_FailureKeepsChanges ==
  (JustReturned("apply_op") /\ ~last.val) =>
     /\ current_state = last.before
     /\ current_state # last.state0 => Len(trace) > last.trace0

\* apply_op has returned false on its second precondition, after another
\* operator was executed for the first, in a world state that is not the one
\* it was called in
C15_Witness ==
  /\ JustReturned("apply_op") /\ ~last.val
  /\ current_state # last.state0
  /\ last.i = 2 /\ Len(trace) = last.trace0 + 1
  /\ LET rs == ChildReturns(Len(log))
     IN  Len(rs) = 2 /\ rs[1].val /\ ~rs[2].val

\* the one step that writes current_state: the apply_op on top of the stack has
\* been through all of its preconditions, each achieved, and applies its
\* del_list and then its add_list
AppliesEffects ==
  /\ Running("apply_op") /\ ret = "none" /\ Top.i > Len(Top.op.preconds)
  /\ current_state' = set_union(set_diff(current_state, Top.op.del_list), Top.op.add_list)
  /\ trace' = Append(trace, Top.op.action)
  /\ stack' = Pop /\ ret' = "true"
  /\ LET rs == (ChildReturns(Len(log)))'
     IN  /\ Len(rs) = Len(Top.op.preconds)
         /\ \A k \in 1..Len(rs) : rs[k].arg = Top.op.preconds[k] /\ rs[k].val

(***************************************************************************)
(* C17.  The library is never modified, and current_state changes only at  *)
(* the step where an apply_op whose preconditions have all been achieved   *)
(* applies its deletes and adds: achieve, find_all, a failing apply_op and *)
(* GPS never write it.                                                     *)
(***************************************************************************)
C17_Frame ==
  [][/\ current_operations' = current_operations
     /\ current_state' # current_state => AppliesEffects]_vars

\* an apply_op with a precondition has just changed current_state
C17_Witness ==
  /\ JustReturned("apply_op") /\ last.val
  /\ current_state # last.before
  /\ Len(last.op.preconds) >= 1
  /\ current_state = set_union(set_diff(last.before, last.op.del_list), last.op.add_list)

(***************************************************************************)
(* C18.  Whenever achieve(goal) returns true, goal is a member of          *)
(* current_state at the moment of return; in particular, when GPS reports  *)
(* SOLVED for a single goal, that goal is in the final current_state.      *)
(***************************************************************************)
C18_AchievedGoalHolds ==
  /\ (JustReturned("achieve") /\ last.val) => Member(last.goal, current_state)
  /\ (output = "SOLVED" /\ Len(goals) = 1) => Member(goals[1], current_state)

\* s is t with some of its elements left out
RECURSIVE IsSubsequence(_, _)
IsSubsequence(s, t) ==
  IF s = <<>> THEN TRUE
  ELSE IF t = <<>> THEN FALSE
  ELSE IF Head(s) = Head(t) THEN IsSubsequence(Tail(s), Tail(t))
  ELSE IsSubsequence(s, Tail(t))

(***************************************************************************)
(* C19.  current_state never grows: in every reachable state it is the     *)
(* initial world state with some conditions left out, in the same order,   *)
(* and no condition absent initially is ever a member, whatever operators  *)
(* are executed.                                                           *)
(***************************************************************************)
C19_NeverGrows ==
  /\ IsSubsequence(current_state, init_state)
  /\ \A c \in Cond \cup DeepCond : Member(c, current_state) => Member(c, init_state)

\* an operator has been executed that deletes a condition of the initial
\* state and adds one that was not in it: the first is gone, the second
\* is not there
C19_Witness ==
  /\ JustReturned("apply_op") /\ last.val
  /\ last.op.del_list # <<>> /\ Member(last.op.del_list[1], init_state)
  /\ ~Member(last.op.del_list[1], current_state)
  /\ last.op.add_list # <<>> /\ ~Member(last.op.add_list[1], init_state)
  /\ ~Member(last.op.add_list[1], current_state)

====
